---- MODULE Spec2Model ----
(***************************************************************************)
(* A model of libtimew (src/src/lib.rs): TimeWarriorLine::from_str, the    *)
(* date parser parse_date, the quote-aware tag lexer and the accessors     *)
(* duration() and full_tag().                                              *)
(*                                                                         *)
(* A character is a one-character string and a str is a sequence of        *)
(* characters, so that the tokenizer, the date scanner and the tag lexer   *)
(* work on the characters of the line as the code does.                    *)
(***************************************************************************)
EXTENDS Integers, Sequences, FiniteSets, TLC

VARIABLES
    line,        \* call -> the &str handed to from_str
    pc,          \* call -> position of the call in from_str
    parts,       \* call -> the unconsumed rest of line.split_whitespace()
    tw_type,     \* call -> the local tw_type
    from,        \* call -> the local from (seconds since the epoch)
    until,       \* call -> the local until
    active,      \* call -> the local active
    endTok,      \* call -> the local u of the closed branch
    tagline,     \* call -> the local tagline
    pos,         \* call -> how many characters of tagline.chars() are consumed
    multitag,    \* call -> the local multitag
    tag_string,  \* call -> the local tag_string
    tags,        \* call -> the local tags
    result,      \* call -> the value from_str returned, None while it runs
    clockReads   \* call -> the values Utc::now() returned to the call, in order

vars == <<line, pc, parts, tw_type, from, until, active, endTok, tagline, pos,
          multitag, tag_string, tags, result, clockReads>>

-----------------------------------------------------------------------------
(* Option<T> *)

None == [some |-> FALSE]

Some(x) == [some |-> TRUE, val |-> x]

-----------------------------------------------------------------------------
(* Characters and strs *)

Digits == {"0", "1", "2", "3", "4", "5", "6", "7", "8", "9"}

DigitVal(c) ==
    CASE c = "0" -> 0 [] c = "1" -> 1 [] c = "2" -> 2 [] c = "3" -> 3
      [] c = "4" -> 4 [] c = "5" -> 5 [] c = "6" -> 6 [] c = "7" -> 7
      [] c = "8" -> 8 [] c = "9" -> 9

(* char::is_whitespace, over the characters the lines are made of *)
IsWhitespace(c) == c \in {" ", "\t"}

RECURSIVE FirstNonWs(_, _)
FirstNonWs(s, i) ==
    IF i > Len(s) \/ ~IsWhitespace(s[i]) THEN i ELSE FirstNonWs(s, i + 1)

RECURSIVE FirstWs(_, _)
FirstWs(s, i) ==
    IF i > Len(s) \/ IsWhitespace(s[i]) THEN i ELSE FirstWs(s, i + 1)

TrimLeft(s) == SubSeq(s, FirstNonWs(s, 1), Len(s))

(* SplitWhitespace::next on the rest s of the line: the next non-empty run *)
(* of non-whitespace characters, and what is left after it                 *)
PartsNext(s) ==
    LET a == FirstNonWs(s, 1)
        b == FirstWs(s, a)
    IN  IF a > Len(s)
        THEN [item |-> None, rest |-> <<>>]
        ELSE [item |-> Some(SubSeq(s, a, b - 1)), rest |-> SubSeq(s, b, Len(s))]

(* parts.map(|n| n.to_string()).collect(): every item left in the iterator *)
RECURSIVE Collect(_)
Collect(s) ==
    LET n == PartsNext(s)
    IN  IF n.item.some THEN <<n.item.val>> \o Collect(n.rest) ELSE <<>>

(* [String]::join(sep) *)
RECURSIVE Join(_, _)
Join(strs, sep) ==
    IF strs = <<>> THEN <<>>
    ELSE IF Len(strs) = 1 THEN strs[1]
    ELSE strs[1] \o sep \o Join(Tail(strs), sep)

-----------------------------------------------------------------------------
(* parse_date: DateTime::parse_from_str(date_string + " +0000",            *)
(* "%Y%m%dT%H%M%SZ %z"), then the parsed local fields read as UTC.         *)

(* the items of the format string "%Y%m%dT%H%M%SZ %z" *)
DateFormat ==
    << [kind |-> "num", field |-> "year",   width |-> 4, signed |-> TRUE],
       [kind |-> "num", field |-> "month",  width |-> 2, signed |-> FALSE],
       [kind |-> "num", field |-> "day",    width |-> 2, signed |-> FALSE],
       [kind |-> "lit", char |-> "T"],
       [kind |-> "num", field |-> "hour",   width |-> 2, signed |-> FALSE],
       [kind |-> "num", field |-> "minute", width |-> 2, signed |-> FALSE],
       [kind |-> "num", field |-> "second", width |-> 2, signed |-> FALSE],
       [kind |-> "lit", char |-> "Z"],
       [kind |-> "space"],
       [kind |-> "tz"] >>

(* how many digits s holds from index i on, at most max of them *)
RECURSIVE DigitRun(_, _, _)
DigitRun(s, i, max) ==
    IF max = 0 \/ i > Len(s) \/ s[i] \notin Digits THEN 0
    ELSE 1 + DigitRun(s, i + 1, max - 1)

RECURSIVE ToNat(_)
ToNat(ds) ==
    IF ds = <<>> THEN 0
    ELSE 10 * ToNat(SubSeq(ds, 1, Len(ds) - 1)) + DigitVal(ds[Len(ds)])

(* a numeric item: leading whitespace skipped, then 1..width digits taken  *)
(* greedily; a signed item takes any number of digits after a '+' or '-'   *)
ScanNumber(s, width, signed) ==
    LET t    == TrimLeft(s)
        sgn  == signed /\ t # <<>> /\ t[1] \in {"+", "-"}
        u    == IF sgn THEN Tail(t) ELSE t
        n    == DigitRun(u, 1, IF sgn THEN Len(u) ELSE width)
        v    == ToNat(SubSeq(u, 1, n))
    IN  IF n = 0 THEN None
        ELSE Some([val |-> IF sgn /\ t[1] = "-" THEN 0 - v ELSE v,
                   rest |-> SubSeq(u, n + 1, Len(u))])

(* colon_or_space: colons and whitespace dropped from the front *)
RECURSIVE SkipColonOrSpace(_)
SkipColonOrSpace(s) ==
    IF s # <<>> /\ (s[1] = ":" \/ IsWhitespace(s[1]))
    THEN SkipColonOrSpace(Tail(s)) ELSE s

(* the %z item: sign, two digits of hours, optional colon, two digits of   *)
(* minutes (00-59); gives what is left of s                                *)
ScanOffset(s) ==
    LET t == TrimLeft(s)
        m == SkipColonOrSpace(SubSeq(t, 4, Len(t)))
    IN  IF /\ Len(t) >= 3
           /\ t[1] \in {"+", "-"}
           /\ t[2] \in Digits /\ t[3] \in Digits
           /\ Len(m) >= 2
           /\ m[1] \in {"0", "1", "2", "3", "4", "5"} /\ m[2] \in Digits
        THEN Some(SubSeq(m, 3, Len(m)))
        ELSE None

(* the format's items applied in order to s; every character must be used *)
RECURSIVE ParseItems(_, _, _)
ParseItems(s, items, fields) ==
    IF items = <<>> THEN (IF s = <<>> THEN Some(fields) ELSE None)
    ELSE
      LET it == Head(items) IN
      CASE it.kind = "num" ->
             LET r == ScanNumber(s, it.width, it.signed)
             IN  IF r.some
                 THEN ParseItems(r.val.rest, Tail(items),
                                 [fields EXCEPT ![it.field] = r.val.val])
                 ELSE None
        [] it.kind = "lit" ->
             IF s # <<>> /\ s[1] = it.char
             THEN ParseItems(Tail(s), Tail(items), fields) ELSE None
        [] it.kind = "space" -> ParseItems(TrimLeft(s), Tail(items), fields)
        [] it.kind = "tz" ->
             LET r == ScanOffset(s)
             IN  IF r.some THEN ParseItems(r.val, Tail(items), fields) ELSE None

IsLeapYear(y) == (y % 4 = 0 /\ y % 100 # 0) \/ y % 400 = 0

DaysInMonth(y, m) ==
    IF m = 2 THEN (IF IsLeapYear(y) THEN 29 ELSE 28)
    ELSE IF m \in {4, 6, 9, 11} THEN 30 ELSE 31

(* the calendar checks of the parsed fields (second 60 is a leap second) *)
ValidFields(f) ==
    /\ f.month \in 1..12
    /\ f.day >= 1 /\ f.day <= DaysInMonth(f.year, f.month)
    /\ f.hour <= 23 /\ f.minute <= 59 /\ f.second <= 60

(* days from 1970-01-01 to y-m-d in the proleptic Gregorian calendar *)
DaysFromCivil(y, m, d) ==
    LET yy  == IF m <= 2 THEN y - 1 ELSE y
        era == yy \div 400
        yoe == yy - era * 400
        mp  == (m + 9) % 12
        doy == (153 * mp + 2) \div 5 + d - 1
        doe == yoe * 365 + yoe \div 4 - yoe \div 100 + doy
    IN  era * 146097 + doe - 719468

(* a DateTime<Utc>: seconds since 1970-01-01T00:00:00Z *)
Timestamp(f) ==
    DaysFromCivil(f.year, f.month, f.day) * 86400
      + f.hour * 3600 + f.minute * 60 + f.second

(* line 154-157: from_part parsed with the format, Err(_) mapped to None *)
ParseFromStr(from_part) ==
    LET zero == [year |-> 0, month |-> 0, day |-> 0,
                 hour |-> 0, minute |-> 0, second |-> 0]
        p == ParseItems(from_part, DateFormat, zero)
    IN  IF p.some /\ ValidFields(p.val) THEN Some(Timestamp(p.val)) ELSE None

(* parse_date reading whatever follows the seconds as a zone name *)
ParseDateAnyZone(date_string) ==
    LET n == IF Len(date_string) < 15 THEN Len(date_string) ELSE 15
    IN  ParseFromStr(SubSeq(date_string, 1, n)
                       \o <<"Z", " ", "+", "0", "0", "0", "0">>)

ParseDate(date_string) ==
    ParseFromStr(date_string \o <<" ", "+", "0", "0", "0", "0">>)

-----------------------------------------------------------------------------
(* Values from_str returns *)

Running == [state |-> "running"]

Ok(rec) == [state |-> "ok", rec |-> rec]

Err(e) == [state |-> "err", err |-> e]

(* TimeWarriorLineError::Generic(msg); msg keeps the message's fixed text   *)
(* and the value format!("{:?}") was given                                  *)
Generic(text, arg) == [variant |-> "Generic", text |-> text, arg |-> arg]

(* what format!("{:?}", x) shows of an Option<&str> and of a &str *)
DebugOption(item) == [shown |-> "Option", item |-> item]

DebugStr(str) == [shown |-> "str", str |-> str]

(* the start-date failure reported as the generic variant *)
NoDateAsGeneric == Generic("Date parsing", None)

NoDate == [variant |-> "NoDate"]

(* the record built with from and until in each other's place *)
TimeWarriorLineSwapped(t, f, u, tg, a) ==
    [tw_type |-> t, from |-> u, until |-> f, tags |-> tg, active |-> a]

(* the struct TimeWarriorLine *)
TimeWarriorLine(t, f, u, tg, a) ==
    [tw_type |-> t, from |-> f, until |-> u, tags |-> tg, active |-> a]

(* the span without its sign *)
durationUnsigned(self) ==
    IF self.until >= self.from THEN self.until - self.from
    ELSE self.from - self.until

(* TimeWarriorLine::duration, in seconds *)
duration(self) == self.until - self.from

(* the tags run together with nothing between them *)
full_tagNoSeparator(self) == Join(self.tags, <<>>)

(* TimeWarriorLine::full_tag *)
full_tag(self) == Join(self.tags, <<" ">>)

-----------------------------------------------------------------------------
(* The tag lexer: the body of the loop over tagline.chars().  st holds the  *)
(* locals multitag, tag_string and tags.                                    *)

(* the quote character toggling the flag and staying in the tag *)
LexCharKeepsQuote(st, one_char) ==
    CASE one_char = "\"" ->
           [st EXCEPT !.multitag = ~st.multitag,
                      !.tag_string = Append(st.tag_string, one_char)]
      [] one_char = " " ->
           IF st.multitag
           THEN [st EXCEPT !.tag_string = Append(st.tag_string, " ")]
           ELSE [st EXCEPT !.tags = Append(st.tags, st.tag_string),
                           !.tag_string = <<>>]
      [] OTHER -> [st EXCEPT !.tag_string = Append(st.tag_string, one_char)]

(* the loop body with the space arm never looking at multitag *)
LexCharSplitsEverySpace(st, one_char) ==
    CASE one_char = "\"" -> [st EXCEPT !.multitag = ~st.multitag]
      [] one_char = " " ->
           [st EXCEPT !.tags = Append(st.tags, st.tag_string),
                      !.tag_string = <<>>]
      [] OTHER -> [st EXCEPT !.tag_string = Append(st.tag_string, one_char)]

LexChar(st, one_char) ==
    CASE one_char = "\"" -> [st EXCEPT !.multitag = ~st.multitag]
      [] one_char = " " ->
           IF st.multitag
           THEN [st EXCEPT !.tag_string = Append(st.tag_string, " ")]
           ELSE [st EXCEPT !.tags = Append(st.tags, st.tag_string),
                           !.tag_string = <<>>]
      [] OTHER -> [st EXCEPT !.tag_string = Append(st.tag_string, one_char)]

(* the tag in progress discarded when its quote was never closed *)
LexFinishDropsUnterminated(st) ==
    IF st.tag_string # <<>> /\ ~st.multitag
    THEN Append(st.tags, st.tag_string) ELSE st.tags

(* the tag in progress at the end of the loop left out *)
LexFinishDropsLast(st) == st.tags

(* the push after the loop *)
LexFinish(st) ==
    IF st.tag_string # <<>> THEN Append(st.tags, st.tag_string) ELSE st.tags

-----------------------------------------------------------------------------
(* The tokens the lines are made of: those of the tests of lib.rs, and     *)
(* three short quoted ones                                                 *)

TokInc == <<"i", "n", "c">>

TokStart ==
    <<"2", "0", "0", "0", "1", "0", "1", "1", "T", "1", "3", "3", "0", "5",
      "5", "Z">>

TokTenLater ==
    <<"2", "0", "0", "0", "1", "0", "1", "1", "T", "1", "3", "4", "0", "5",
      "5", "Z">>

TokEvening ==
    <<"2", "0", "0", "0", "1", "0", "1", "1", "T", "1", "8", "3", "0", "5",
      "5", "Z">>

TokNovember ==
    <<"2", "0", "0", "0", "1", "1", "1", "2", "T", "1", "4", "4", "0", "5",
      "4", "Z">>

TokCest ==
    <<"2", "0", "0", "0", "1", "0", "1", "1", "T", "1", "3", "3", "0", "5",
      "5", "C", "E", "S", "T">>

TokHash == <<"#">>

TokDash == <<"-">>

TokOpenA == <<"\"", "A">>

TokCloseB == <<"B", "\"">>

TokEmptyQuotes == <<"\"", "\"">>

TokWalala == <<"W", "a", "l", "a", "l", "a">>

TokBuvere == <<"B", "u", "v", "e", "r", "e">>

TokOpenABC == <<"\"", "A", "B", "C">>

TokCloseCDE == <<"C", "D", "E", "\"">>

TokEFG == <<"E", "F", "G">>

TokHIJ == <<"H", "I", "J">>

TokAfdf == <<"a", "f", "d", "f">>

TokDafdf == <<"d", "a", "f", "d", "f">>

TokDsfads == <<"d", "s", "f", "a", "d", "s">>

TokFdsaf == <<"f", "d", "s", "a", "f">>

TokSdsadsad == <<"s", "d", "s", "a", "d", "s", "a", "d">>

TokSadasds == <<"s", "a", "d", "a", "s", "d", "s">>

TokDsafsadsads == <<"d", "s", "a", "f", "s", "a", "d", "s", "a", "d", "s">>

-----------------------------------------------------------------------------
(* The lines handed to from_str *)

(* from_str takes at most five tokens before the tag section: the kind, the *)
(* start date, "-", the end date and the token after it (line 73)          *)
HeaderTokens == 5

MaxTagTokens == 4

MaxClock == 1

SeqsUpTo(S, n) == UNION {[1..k -> S] : k \in 0..n}

(* how the tokens of a line are laid out: the whitespace before the first,  *)
(* between two, and after the last                                          *)
Layouts ==
    { [lead |-> <<>>, sep |-> <<" ">>, trail |-> <<>>],
      [lead |-> <<" ">>, sep |-> <<" ", "\t">>, trail |-> <<" ">>] }

Render(toks, lay) == lay.lead \o Join(toks, lay.sep) \o lay.trail

HeadVocab == {TokInc, TokStart, TokTenLater, TokCest, TokHash, TokDash}

TagVocab == {TokInc, TokOpenA, TokCloseB, TokEmptyQuotes}

(* every line of at most HeaderTokens tokens of HeadVocab *)
ShortLines == SeqsUpTo(HeadVocab, HeaderTokens)

(* the two headers that end in the tag marker, each followed by every tag   *)
(* section of at most MaxTagTokens tokens of TagVocab                       *)
TaggedLines ==
    { h \o t :
        h \in { <<TokInc, d, TokHash>> : d \in {TokStart, TokTenLater} }
              \cup { <<TokInc, d, TokDash, e, TokHash>> :
                       d \in {TokStart, TokTenLater},
                       e \in {TokStart, TokTenLater} },
        t \in SeqsUpTo(TagVocab, MaxTagTokens) }

(* the lines of the tests of lib.rs *)
TestLines ==
    { Join(<<TokAfdf, TokDafdf, TokDsfads, TokFdsaf>>, <<" ">>),
      Join(<<TokInc, TokCest>>, <<" ">>),
      TokInc,
      Join(<<TokInc, TokStart, TokDash, TokSdsadsad>>, <<" ">>),
      Join(<<TokInc, TokStart, TokSadasds>>, <<" ">>),
      Join(<<TokInc, TokStart, TokDash, TokEvening, TokDsafsadsads>>, <<" ">>),
      Join(<<TokInc, TokStart, TokDash>>, <<" ">>) \o <<" ">>,
      Join(<<TokInc, TokStart>>, <<" ">>),
      Join(<<TokInc, TokStart, TokHash, TokWalala>>, <<" ">>),
      Join(<<TokInc, TokStart, TokDash, TokNovember>>, <<" ">>),
      Join(<<TokInc, TokStart, TokDash, TokTenLater>>, <<" ">>),
      Join(<<TokInc, TokStart, TokDash, TokNovember, TokHash, TokBuvere>>,
           <<" ">>),
      Join(<<TokInc, TokStart, TokDash, TokNovember, TokHash, TokOpenABC,
             TokCloseCDE, TokEFG, TokHIJ>>, <<" ">>) }

Lines ==
    { Render(toks, lay) : toks \in ShortLines \cup TaggedLines,
                          lay \in Layouts }
      \cup TestLines

(* the values Utc::now() may return *)
ClockOrigin == ParseDate(TokNovember).val

ClockValues == { ClockOrigin + k : k \in 0..MaxClock }

-----------------------------------------------------------------------------
(* The steps of one from_str call c *)

Calls == DOMAIN pc

Return(c, r) ==
    /\ pc' = [pc EXCEPT ![c] = "done"]
    /\ result' = [result EXCEPT ![c] = r]

(* lines 40-45: the kind token *)
TypeStep(c) ==
    /\ pc[c] = "type"
    /\ LET n == PartsNext(parts[c]) IN
       /\ parts' = [parts EXCEPT ![c] = n.rest]
       /\ IF n.item.some
          THEN /\ tw_type' = [tw_type EXCEPT ![c] = n.item.val]
               /\ pc' = [pc EXCEPT ![c] = "from"]
               /\ UNCHANGED result
          ELSE /\ Return(c, Err(Generic("Type parsing", None)))
               /\ UNCHANGED tw_type
    /\ UNCHANGED <<line, from, until, active, endTok, tagline, pos, multitag,
                   tag_string, tags, clockReads>>

(* lines 47-60: the start date *)
FromStep(c) ==
    /\ pc[c] = "from"
    /\ LET n == PartsNext(parts[c])
           d == IF n.item.some THEN ParseDate(n.item.val) ELSE None
       IN
       /\ parts' = [parts EXCEPT ![c] = n.rest]
       /\ IF d.some
          THEN /\ from' = [from EXCEPT ![c] = d.val]
               /\ pc' = [pc EXCEPT ![c] = "trailer"]
               /\ UNCHANGED result
          ELSE /\ Return(c, Err(NoDate))
               /\ UNCHANGED from
    /\ UNCHANGED <<line, tw_type, until, active, endTok, tagline, pos, multitag,
                   tag_string, tags, clockReads>>

(* the arm of the match at line 63 that the third item selects *)
TrailerArm(item) ==
    IF ~item.some THEN "end"
    ELSE IF item.val = <<"#">> THEN "tags"
    ELSE IF item.val = <<"-">> THEN "closed"
    ELSE "other"

(* active left false in the arm for the end of the line *)
ArmActiveTagsOnly(arm) == arm = "tags"

(* lines 62, 66 and 101: active once the match has chosen its arm *)
ArmActive(arm) == arm \in {"tags", "end"}

(* Utc::now() read ahead of the match, in every arm *)
TrailerStepEagerClock(c) ==
    /\ pc[c] = "trailer"
    /\ LET n == PartsNext(parts[c])
           arm == TrailerArm(n.item)
       IN
       /\ parts' = [parts EXCEPT ![c] = n.rest]
       /\ active' = [active EXCEPT ![c] = ArmActive(arm)]
       /\ \E now \in ClockValues :
            /\ clockReads' = [clockReads EXCEPT ![c] = Append(@, now)]
            /\ CASE arm \in {"tags", "end"} ->
                      /\ until' = [until EXCEPT ![c] = now]
                      /\ pc' = [pc EXCEPT ![c] = "collect"]
                      /\ UNCHANGED result
                 [] arm = "closed" ->
                      /\ pc' = [pc EXCEPT ![c] = "end_token"]
                      /\ UNCHANGED <<until, result>>
                 [] arm = "other" ->
                      /\ Return(c, Err(Generic("Unexpected", DebugOption(n.item))))
                      /\ UNCHANGED until
    /\ UNCHANGED <<line, tw_type, from, endTok, tagline, pos, multitag,
                   tag_string, tags>>

(* lines 62-68 and 99-110: the token after the start date; Utc::now() is    *)
(* read in the two open arms                                                *)
TrailerStep(c) ==
    /\ pc[c] = "trailer"
    /\ LET n == PartsNext(parts[c])
           arm == TrailerArm(n.item)
       IN
       /\ parts' = [parts EXCEPT ![c] = n.rest]
       /\ active' = [active EXCEPT ![c] = ArmActive(arm)]
       /\ CASE arm \in {"tags", "end"} ->
                 \E now \in ClockValues :
                    /\ until' = [until EXCEPT ![c] = now]
                    /\ clockReads' = [clockReads EXCEPT ![c] = Append(@, now)]
                    /\ pc' = [pc EXCEPT ![c] = "collect"]
                    /\ UNCHANGED result
            [] arm = "closed" ->
                 /\ pc' = [pc EXCEPT ![c] = "end_token"]
                 /\ UNCHANGED <<until, clockReads, result>>
            [] arm = "other" ->
                 /\ Return(c, Err(Generic("Unexpected", DebugOption(n.item))))
                 /\ UNCHANGED <<until, clockReads>>
    /\ UNCHANGED <<line, tw_type, from, endTok, tagline, pos, multitag,
                   tag_string, tags>>

(* the closed branch treating a missing end token as an open interval *)
EndTokenStepOpenOnNone(c) ==
    /\ pc[c] = "end_token"
    /\ LET n == PartsNext(parts[c]) IN
       /\ parts' = [parts EXCEPT ![c] = n.rest]
       /\ IF n.item.some
          THEN /\ endTok' = [endTok EXCEPT ![c] = n.item.val]
               /\ pc' = [pc EXCEPT ![c] = "stuff"]
          ELSE /\ pc' = [pc EXCEPT ![c] = "collect"]
               /\ UNCHANGED endTok
    /\ UNCHANGED <<line, tw_type, from, until, active, tagline, pos, multitag,
                   tag_string, tags, clockReads, result>>

(* lines 71-72 and 93-95: the token after "-" *)
EndTokenStep(c) ==
    /\ pc[c] = "end_token"
    /\ LET n == PartsNext(parts[c]) IN
       /\ parts' = [parts EXCEPT ![c] = n.rest]
       /\ IF n.item.some
          THEN /\ endTok' = [endTok EXCEPT ![c] = n.item.val]
               /\ pc' = [pc EXCEPT ![c] = "stuff"]
               /\ UNCHANGED result
          ELSE /\ Return(c, Err(Generic("nope", None)))
               /\ UNCHANGED endTok
    /\ UNCHANGED <<line, tw_type, from, until, active, tagline, pos, multitag,
                   tag_string, tags, clockReads>>

(* the match on stuff with every token let through *)
StuffOkAny(stuff) == TRUE

(* the match on stuff at lines 74-82 *)
StuffOk(stuff) == ~stuff.some \/ stuff.val = <<"#">>

(* lines 73-82: the token after the end date *)
StuffStep(c) ==
    /\ pc[c] = "stuff"
    /\ LET n == PartsNext(parts[c]) IN
       /\ parts' = [parts EXCEPT ![c] = n.rest]
       /\ IF StuffOk(n.item)
          THEN /\ pc' = [pc EXCEPT ![c] = "end_date"]
               /\ UNCHANGED result
          ELSE Return(c, Err(Generic("Unexpected", DebugOption(n.item))))
    /\ UNCHANGED <<line, tw_type, from, until, active, endTok, tagline, pos,
                   multitag, tag_string, tags, clockReads>>

(* the closed branch taking its end from the clock, as the open arms do *)
EndDateStepReadsClock(c) ==
    /\ pc[c] = "end_date"
    /\ LET d == ParseDate(endTok[c]) IN
       IF d.some
       THEN /\ \E now \in ClockValues : until' = [until EXCEPT ![c] = now]
            /\ pc' = [pc EXCEPT ![c] = "collect"]
            /\ UNCHANGED result
       ELSE /\ Return(c, Err(Generic("Unexpected", DebugStr(endTok[c]))))
            /\ UNCHANGED until
    /\ UNCHANGED <<line, parts, tw_type, from, active, endTok, tagline, pos,
                   multitag, tag_string, tags, clockReads>>

(* lines 83-91 and 97: the end date *)
EndDateStep(c) ==
    /\ pc[c] = "end_date"
    /\ LET d == ParseDate(endTok[c]) IN
       IF d.some
       THEN /\ until' = [until EXCEPT ![c] = d.val]
            /\ pc' = [pc EXCEPT ![c] = "collect"]
            /\ UNCHANGED result
       ELSE /\ Return(c, Err(Generic("Unexpected", DebugStr(endTok[c]))))
            /\ UNCHANGED until
    /\ UNCHANGED <<line, parts, tw_type, from, active, endTok, tagline, pos,
                   multitag, tag_string, tags, clockReads>>

(* lines 112-118: the rest of the tokens rejoined with single spaces *)
CollectStep(c) ==
    /\ pc[c] = "collect"
    /\ tagline' = [tagline EXCEPT ![c] = Join(Collect(parts[c]), <<" ">>)]
    /\ parts' = [parts EXCEPT ![c] = <<>>]
    /\ pos' = [pos EXCEPT ![c] = 0]
    /\ multitag' = [multitag EXCEPT ![c] = FALSE]
    /\ tag_string' = [tag_string EXCEPT ![c] = <<>>]
    /\ tags' = [tags EXCEPT ![c] = <<>>]
    /\ pc' = [pc EXCEPT ![c] = "scan"]
    /\ UNCHANGED <<line, tw_type, from, until, active, endTok, result,
                   clockReads>>

(* the loop body with tag_string a buffer that all calls share (the one of *)
(* call 1) in place of a local                                             *)
ScanStepSharedBuffer(c) ==
    /\ pc[c] = "scan"
    /\ pos[c] < Len(tagline[c])
    /\ LET st == LexChar([multitag |-> multitag[c],
                          tag_string |-> tag_string[1],
                          tags |-> tags[c]],
                         tagline[c][pos[c] + 1])
       IN
       /\ multitag' = [multitag EXCEPT ![c] = st.multitag]
       /\ tag_string' = [tag_string EXCEPT ![1] = st.tag_string]
       /\ tags' = [tags EXCEPT ![c] = st.tags]
    /\ pos' = [pos EXCEPT ![c] = @ + 1]
    /\ UNCHANGED <<line, pc, parts, tw_type, from, until, active, endTok,
                   tagline, result, clockReads>>

(* lines 119-136: one iteration of the loop over tagline.chars() *)
ScanStep(c) ==
    /\ pc[c] = "scan"
    /\ pos[c] < Len(tagline[c])
    /\ LET st == LexChar([multitag |-> multitag[c],
                          tag_string |-> tag_string[c],
                          tags |-> tags[c]],
                         tagline[c][pos[c] + 1])
       IN
       /\ multitag' = [multitag EXCEPT ![c] = st.multitag]
       /\ tag_string' = [tag_string EXCEPT ![c] = st.tag_string]
       /\ tags' = [tags EXCEPT ![c] = st.tags]
    /\ pos' = [pos EXCEPT ![c] = @ + 1]
    /\ UNCHANGED <<line, pc, parts, tw_type, from, until, active, endTok,
                   tagline, result, clockReads>>

(* lines 137-147: the last tag and the record *)
FinishStep(c) ==
    /\ pc[c] = "scan"
    /\ pos[c] = Len(tagline[c])
    /\ LET all == LexFinish([multitag |-> multitag[c],
                             tag_string |-> tag_string[c],
                             tags |-> tags[c]])
       IN
       /\ tags' = [tags EXCEPT ![c] = all]
       /\ Return(c, Ok(TimeWarriorLine(tw_type[c], from[c], until[c], all,
                                       active[c])))
    /\ UNCHANGED <<line, parts, tw_type, from, until, active, endTok, tagline,
                   pos, multitag, tag_string, clockReads>>

Next ==
    \/ \E c \in Calls : TypeStep(c)
    \/ \E c \in Calls : FromStep(c)
    \/ \E c \in Calls : TrailerStep(c)
    \/ \E c \in Calls : EndTokenStep(c)
    \/ \E c \in Calls : StuffStep(c)
    \/ \E c \in Calls : EndDateStep(c)
    \/ \E c \in Calls : CollectStep(c)
    \/ \E c \in Calls : ScanStep(c)
    \/ \E c \in Calls : FinishStep(c)

-----------------------------------------------------------------------------
(* from_str run from entry to return by one caller on its own: the value   *)
(* it returns on line l when Utc::now(), if read, returns nows[1]          *)

(* lines 116-139: the tag lexer over the whole of tagline *)
RECURSIVE LexFrom(_, _, _)
LexFrom(st, tagln, i) ==
    IF i > Len(tagln) THEN LexFinish(st)
    ELSE LexFrom(LexChar(st, tagln[i]), tagln, i + 1)

LexTags(rest) ==
    LexFrom([multitag |-> FALSE, tag_string |-> <<>>, tags |-> <<>>],
            Join(Collect(rest), <<" ">>), 1)

FromStr(l, nows) ==
    LET p1  == PartsNext(l)
        p2  == PartsNext(p1.rest)
        f   == IF p2.item.some THEN ParseDate(p2.item.val) ELSE None
        p3  == PartsNext(p2.rest)
        arm == TrailerArm(p3.item)
        p4  == PartsNext(p3.rest)
        p5  == PartsNext(p4.rest)
        u   == ParseDate(p4.item.val)
    IN  IF ~p1.item.some THEN Err(Generic("Type parsing", None))
        ELSE IF ~f.some THEN Err(NoDate)
        ELSE IF arm = "other"
             THEN Err(Generic("Unexpected", DebugOption(p3.item)))
        ELSE IF arm \in {"tags", "end"}
             THEN Ok(TimeWarriorLine(p1.item.val, f.val, nows[1],
                                     LexTags(p3.rest), ArmActive(arm)))
        ELSE IF ~p4.item.some THEN Err(Generic("nope", None))
        ELSE IF ~StuffOk(p5.item)
             THEN Err(Generic("Unexpected", DebugOption(p5.item)))
        ELSE IF ~u.some THEN Err(Generic("Unexpected", DebugStr(p4.item.val)))
        ELSE Ok(TimeWarriorLine(p1.item.val, f.val, u.val,
                                LexTags(p5.rest), ArmActive(arm)))

-----------------------------------------------------------------------------
(* from_str is entered on every line of lns, one call per line; line 38 *)
Start(lns) ==
    /\ line = lns
    /\ parts = lns
    /\ pc = [c \in DOMAIN lns |-> "type"]
    /\ tw_type = [c \in DOMAIN lns |-> <<>>]
    /\ from = [c \in DOMAIN lns |-> 0]
    /\ until = [c \in DOMAIN lns |-> 0]
    /\ active = [c \in DOMAIN lns |-> FALSE]
    /\ endTok = [c \in DOMAIN lns |-> <<>>]
    /\ tagline = [c \in DOMAIN lns |-> <<>>]
    /\ pos = [c \in DOMAIN lns |-> 0]
    /\ multitag = [c \in DOMAIN lns |-> FALSE]
    /\ tag_string = [c \in DOMAIN lns |-> <<>>]
    /\ tags = [c \in DOMAIN lns |-> <<>>]
    /\ result = [c \in DOMAIN lns |-> Running]
    /\ clockReads = [c \in DOMAIN lns |-> <<>>]

(* one call, on any line *)
Init == \E l \in Lines : Start(<<l>>)

Spec == Init /\ [][Next]_vars

(* two calls whose steps interleave, each on a line of the tests *)
InitConc == \E l1 \in TestLines, l2 \in TestLines : Start(<<l1, l2>>)

SpecConc == InitConc /\ [][Next]_vars

-----------------------------------------------------------------------------
(* What the properties say about a line is read off the line itself: its    *)
(* words are its maximal runs of non-whitespace characters.                 *)

WordStarts(l) ==
    { i \in 1..Len(l) :
        ~IsWhitespace(l[i]) /\ (i = 1 \/ IsWhitespace(l[i - 1])) }

WordEnd(l, i) ==
    CHOOSE j \in i..Len(l) :
        /\ \A k \in i..j : ~IsWhitespace(l[k])
        /\ j = Len(l) \/ IsWhitespace(l[j + 1])

Words(l) ==
    LET st == WordStarts(l) IN
    [ k \in 1..Cardinality(st) |->
        LET i == CHOOSE i \in st : Cardinality({j \in st : j < i}) = k - 1
        IN  SubSeq(l, i, WordEnd(l, i)) ]

ValidDate(tok) == ParseDate(tok).some

Returned(c) == result[c].state # "running"

Succeeded(c) == result[c].state = "ok"

Failed(c) == result[c].state = "err"

(* the shapes of line the grammar has no rule for *)
OnlyWhitespace(w) == Len(w) = 0

OnlyKind(w) == Len(w) = 1

BadStart(w) == Len(w) >= 2 /\ ~ValidDate(w[2])

BadTrailer(w) == Len(w) >= 3 /\ w[3] \notin {TokHash, TokDash}

DanglingDash(w) == Len(w) = 3 /\ w[3] = TokDash

BadEnd(w) == Len(w) >= 4 /\ w[3] = TokDash /\ ~ValidDate(w[4])

BadAfterEnd(w) == Len(w) >= 5 /\ w[3] = TokDash /\ w[5] # TokHash

Malformed(w) ==
    \/ OnlyWhitespace(w) \/ OnlyKind(w) \/ BadStart(w) \/ BadTrailer(w)
    \/ DanglingDash(w) \/ BadEnd(w) \/ BadAfterEnd(w)

-----------------------------------------------------------------------------
(* C1: from_str returns an error for every malformed line: an empty or      *)
(* whitespace-only line, a line with only a kind, a line whose second token *)
(* is no valid date, a line whose third token is neither # nor -, a line    *)
(* that ends right after -, a line whose token after - is no valid date,    *)
(* and a line with a token other than # right after the end date.           *)
C1_MalformedFails ==
    \A c \in Calls :
        Returned(c) /\ Malformed(Words(line[c])) => Failed(c)

(* a call that failed on a token other than # after a valid closed interval *)
C1_Witness ==
    \E c \in Calls :
        LET w == Words(line[c]) IN
        /\ Failed(c)
        /\ BadAfterEnd(w)
        /\ ValidDate(w[2]) /\ ValidDate(w[4])

(* C2: a failed parse is NoDate exactly when the kind token is there and    *)
(* the start-date token is missing or fails date parsing; every other       *)
(* failure is Generic.                                                      *)
C2_ErrorTaxonomy ==
    \A c \in Calls :
        Failed(c) =>
            LET w == Words(line[c])
                e == result[c].err
            IN  /\ e.variant \in {"NoDate", "Generic"}
                /\ e.variant = "NoDate" <=> (OnlyKind(w) \/ BadStart(w))

(* a call that failed with NoDate on a start token that is no date *)
C2_Witness ==
    \E c \in Calls :
        /\ Failed(c)
        /\ result[c].err.variant = "NoDate"
        /\ BadStart(Words(line[c]))

(* C3: on success active is true iff the token after the start date is # or *)
(* absent, and false iff that token is - followed by a valid end date.      *)
C3_ActiveIffOpen ==
    \A c \in Calls :
        Succeeded(c) =>
            LET w == Words(line[c])
                a == result[c].rec.active
            IN  /\ a <=> (Len(w) < 3 \/ w[3] = TokHash)
                /\ ~a <=> (Len(w) >= 4 /\ w[3] = TokDash /\ ValidDate(w[4]))

(* a call that returned an open record for a line that ends after its start *)
(* date                                                                     *)
C3_Witness ==
    \E c \in Calls :
        /\ Succeeded(c)
        /\ Len(Words(line[c])) = 2
        /\ result[c].rec.active

(* C4: on success kind is the first token as written, start is the date     *)
(* value of the second token and, for a closed interval, end is the date    *)
(* value of the token after -; 20001011T133055Z is 2000-10-11 13:30:55 and  *)
(* 20001112T144054Z is 2000-11-12 14:40:54, in seconds since the epoch.     *)
C4_FieldsFromTokens ==
    \A c \in Calls :
        Succeeded(c) =>
            LET w == Words(line[c])
                r == result[c].rec
            IN  /\ r.tw_type = w[1]
                /\ r.from = ParseDate(w[2]).val
                /\ w[2] = TokStart => r.from = 971271055
                /\ ~r.active =>
                     /\ r.until = ParseDate(w[4]).val
                     /\ w[4] = TokNovember => r.until = 974040054

(* a closed record whose start and end are the dates of the spec's example *)
C4_Witness ==
    \E c \in Calls :
        /\ Succeeded(c)
        /\ ~result[c].rec.active
        /\ Words(line[c])[2] = TokStart
        /\ Words(line[c])[4] = TokNovember

-----------------------------------------------------------------------------
(* The tag section of a line, read off its words: the words after the #     *)
(* marker, and those words rejoined with single spaces.                     *)

SectionTokens(w) ==
    IF Len(w) >= 3 /\ w[3] = TokHash THEN SubSeq(w, 4, Len(w))
    ELSE IF Len(w) >= 5 /\ w[3] = TokDash /\ w[5] = TokHash
         THEN SubSeq(w, 6, Len(w))
    ELSE <<>>

Section(w) == Join(SectionTokens(w), <<" ">>)

IsQuote(ch) == ch = "\""

HasQuote(str) == \E i \in 1..Len(str) : IsQuote(str[i])

Unquoted(str) == SelectSeq(str, LAMBDA ch : ~IsQuote(ch))

QuotesBefore(sec, i) == Cardinality({ j \in 1..(i - 1) : IsQuote(sec[j]) })

(* the spaces of the section that lie outside quotes *)
OutsideSpaces(sec) ==
    { i \in 1..Len(sec) : sec[i] = " " /\ QuotesBefore(sec, i) % 2 = 0 }

(* the section cut at its outside spaces, each piece without its quotes *)
Segments(sec) ==
    LET out == OutsideSpaces(sec)
        n   == Cardinality(out)
        Cut(k) == IF k = 0 THEN 0
                  ELSE IF k = n + 1 THEN Len(sec) + 1
                  ELSE CHOOSE i \in out : Cardinality({j \in out : j < i}) = k - 1
    IN  [ k \in 1..(n + 1) |-> Unquoted(SubSeq(sec, Cut(k - 1) + 1, Cut(k) - 1)) ]

Front(sq) == SubSeq(sq, 1, Len(sq) - 1)

(* C5: in the tag section a space separates two tags iff it lies outside    *)
(* quotes, a space inside quotes stays in its tag, and no tag holds a quote *)
(* character: the tags are the pieces of the section between its outside    *)
(* spaces, quotes removed (a last piece that is empty gives no tag); so     *)
(* "ABC CDE" EFG HIJ gives the three tags ABC CDE, EFG, HIJ.                *)
C5_QuotedSpaces ==
    \A c \in Calls :
        Succeeded(c) =>
            LET w    == Words(line[c])
                segs == Segments(Section(w))
                t    == result[c].rec.tags
            IN  /\ \/ t = segs
                   \/ segs[Len(segs)] = <<>> /\ t = Front(segs)
                /\ \A i \in 1..Len(t) : ~HasQuote(t[i])
                /\ SectionTokens(w) = <<TokOpenABC, TokCloseCDE, TokEFG, TokHIJ>>
                     => t = << <<"A", "B", "C", " ", "C", "D", "E">>,
                               TokEFG, TokHIJ >>

(* the record of the test line with the quoted tag: three tags, the first   *)
(* with its space                                                           *)
C5_Witness ==
    \E c \in Calls :
        /\ Succeeded(c)
        /\ SectionTokens(Words(line[c]))
             = <<TokOpenABC, TokCloseCDE, TokEFG, TokHIJ>>
        /\ Len(result[c].rec.tags) = 3
        /\ result[c].rec.tags[1][4] = " "

(* C6: when the tag section holds no quote character, tags is the sequence  *)
(* of the tokens after the # marker: same length, same order, duplicates    *)
(* kept, in the open form and in the closed form alike.                     *)
C6_PlainTags ==
    \A c \in Calls :
        Succeeded(c) =>
            LET w == Words(line[c]) IN
            ~HasQuote(Section(w)) => result[c].rec.tags = SectionTokens(w)

(* a closed record whose tags are the same plain word twice *)
C6_Witness ==
    \E c \in Calls :
        /\ Succeeded(c)
        /\ ~result[c].rec.active
        /\ result[c].rec.tags = <<TokInc, TokInc>>
        /\ SectionTokens(Words(line[c])) = <<TokInc, TokInc>>

-----------------------------------------------------------------------------
(* C7: two parses of the same line, whatever the clock returns to each,     *)
(* give the same outcome (success, or the same error variant) and, on       *)
(* success, equal kind, start, tags and active; for a closed interval end   *)
(* and duration() are equal too.  Only end of an open interval may differ.  *)
C7_DeterministicUpToClock ==
    \A c1 \in Calls, c2 \in Calls :
        line[c1] = line[c2] /\ Returned(c1) /\ Returned(c2) =>
            /\ result[c1].state = result[c2].state
            /\ Failed(c1) => result[c1].err.variant = result[c2].err.variant
            /\ Succeeded(c1) =>
                 LET r1 == result[c1].rec
                     r2 == result[c2].rec
                 IN  /\ r1.tw_type = r2.tw_type
                     /\ r1.from = r2.from
                     /\ r1.tags = r2.tags
                     /\ r1.active = r2.active
                     /\ ~r1.active =>
                          /\ r1.until = r2.until
                          /\ duration(r1) = duration(r2)

(* two calls on the same line that both returned a closed record *)
C7_Witness ==
    \E c1 \in Calls, c2 \in Calls :
        /\ c1 # c2
        /\ line[c1] = line[c2]
        /\ Succeeded(c1) /\ Succeeded(c2)
        /\ ~result[c1].rec.active

(* two calls on the same line whose open records differ in end alone *)
C7_OpenEndsDiffer ==
    \E c1 \in Calls, c2 \in Calls :
        /\ line[c1] = line[c2]
        /\ Succeeded(c1) /\ Succeeded(c2)
        /\ result[c1].rec.until # result[c2].rec.until

-----------------------------------------------------------------------------
(* date tokens that differ in what follows the seconds *)
ZoneProbes ==
    { SubSeq(TokStart, 1, 15) \o sfx :
        sfx \in { <<"Z">>, <<>>, <<"z">>, <<"C", "E", "S", "T">>,
                  <<"U", "T", "C">>, <<"+", "0", "0", "0", "0">>,
                  <<"Z", "+", "0", "0", "0", "0">>, <<"Z", "+", "0", "0">>,
                  <<"Z", "+", "0", "0", ":">>, <<"Z", "+">>, <<"Z", "0">> } }

EndsInZ(tok) == tok # <<>> /\ tok[Len(tok)] = "Z"

(* parse_date on the probes and on the tokens of the lines *)
NoDateWithoutZ ==
    \A tok \in ZoneProbes \cup HeadVocab \cup TagVocab :
        ~EndsInZ(tok) => ~ParseDate(tok).some

(* C8: a date token that does not end in Z (such as one ending in CEST) is  *)
(* never accepted by parse_date; as the start date it makes from_str fail   *)
(* with NoDate, as the end date it makes from_str fail with Generic.        *)
C8_OnlyZ ==
    /\ NoDateWithoutZ
    /\ \A c \in Calls :
          Returned(c) =>
              LET w == Words(line[c]) IN
              /\ Len(w) >= 2 /\ ~EndsInZ(w[2]) =>
                     Failed(c) /\ result[c].err.variant = "NoDate"
              /\ Len(w) >= 4 /\ ValidDate(w[2]) /\ w[3] = TokDash
                     /\ ~EndsInZ(w[4]) =>
                     Failed(c) /\ result[c].err.variant = "Generic"

(* a call that failed with Generic on an end date ending in CEST *)
C8_Witness ==
    \E c \in Calls :
        LET w == Words(line[c]) IN
        /\ Failed(c)
        /\ result[c].err.variant = "Generic"
        /\ Len(w) >= 4 /\ ValidDate(w[2]) /\ w[3] = TokDash /\ w[4] = TokCest
        /\ pc[c] = "done" /\ endTok[c] = TokCest

-----------------------------------------------------------------------------
(* a line of the closed form: kind, date, -, date, then nothing or #... *)
ClosedForm(w) ==
    /\ Len(w) >= 4
    /\ ValidDate(w[2]) /\ w[3] = TokDash /\ ValidDate(w[4])
    /\ Len(w) = 4 \/ w[5] = TokHash

(* C9: duration() is the signed span end - start and the parser does not    *)
(* check end >= start: a closed line whose end date precedes its start date *)
(* is accepted and its duration() is negative; a line that ends ten minutes *)
(* after its start gives exactly 10 minutes.                                *)
C9_SignedDuration ==
    \A c \in Calls :
        Returned(c) =>
            LET w == Words(line[c]) IN
            /\ ClosedForm(w) =>
                 /\ Succeeded(c)
                 /\ duration(result[c].rec)
                      = ParseDate(w[4]).val - ParseDate(w[2]).val
                 /\ w[2] = TokStart /\ w[4] = TokTenLater =>
                      duration(result[c].rec) = 10 * 60
                 /\ w[2] = TokTenLater /\ w[4] = TokStart =>
                      duration(result[c].rec) < 0
            /\ Succeeded(c) /\ result[c].rec.active =>
                 duration(result[c].rec)
                   = clockReads[c][1] - ParseDate(w[2]).val

(* a closed record whose end precedes its start *)
C9_Witness ==
    \E c \in Calls :
        LET w == Words(line[c]) IN
        /\ Succeeded(c)
        /\ ClosedForm(w)
        /\ ParseDate(w[4]).val < ParseDate(w[2]).val
        /\ duration(result[c].rec) < 0

-----------------------------------------------------------------------------
(* everything call c holds *)
Local(c) ==
    <<line[c], pc[c], parts[c], tw_type[c], from[c], until[c], active[c],
      endTok[c], tagline[c], pos[c], multitag[c], tag_string[c], tags[c],
      result[c], clockReads[c]>>

(* C10: parse calls are independent: with the steps of several calls        *)
(* interleaved in any order, every step changes the state of one call only, *)
(* and each call returns what it returns when run alone on its line with    *)
(* the clock value it read.                                                 *)
C10_CallsIndependent ==
    [][ /\ \E c \in Calls : \A d \in Calls \ {c} : Local(d)' = Local(d)
        /\ \A c \in Calls :
              Returned(c)' => result'[c] = FromStr(line'[c], clockReads'[c])
      ]_vars

(* a call has returned its three tags while the other call, on another      *)
(* line, is in the middle of its tag loop                                   *)
C10_Witness ==
    \E c \in Calls, d \in Calls :
        /\ line[c] # line[d]
        /\ Succeeded(c) /\ Len(result[c].rec.tags) = 3
        /\ pc[d] = "scan" /\ pos[d] > 0 /\ pos[d] < Len(tagline[d])

-----------------------------------------------------------------------------
(* the token a Generic("Unexpected ..") error shows *)
ShownToken(e) ==
    IF e.arg.shown = "Option" THEN e.arg.item.val ELSE e.arg.str

Unexpected(e, tok) ==
    e.variant = "Generic" /\ e.text = "Unexpected" /\ ShownToken(e) = tok

(* C11: a failed parse reports the first grammar rule violated, in the      *)
(* order kind, start date, trailer marker, end-date token present, end-date *)
(* token parses, token after the end date; so for a line                    *)
(* <kind> <start> - <non-date> <word> the Generic error names the           *)
(* unparseable end-date token, not the word after it.                       *)
C11_FirstRuleReported ==
    \A c \in Calls :
        Failed(c) =>
            LET w == Words(line[c])
                e == result[c].err
            IN  IF OnlyWhitespace(w)
                  THEN e.variant = "Generic" /\ e.text = "Type parsing"
                ELSE IF OnlyKind(w) \/ BadStart(w) THEN e.variant = "NoDate"
                ELSE IF BadTrailer(w) THEN Unexpected(e, w[3])
                ELSE IF DanglingDash(w)
                  THEN e.variant = "Generic" /\ e.text = "nope"
                ELSE IF BadEnd(w) THEN Unexpected(e, w[4])
                ELSE Unexpected(e, w[5])

(* a line of exactly kind, valid start date and one trailer marker *)
BareMarker(w, marker) == Len(w) = 3 /\ ValidDate(w[2]) /\ w[3] = marker

(* C12 as stated: a line made of a kind, a valid start date and a bare      *)
(* trailer marker, # or -, with nothing after it fails with Generic.        *)
C12_BareMarkerFails ==
    \A c \in Calls :
        Returned(c) =>
            LET w == Words(line[c]) IN
            BareMarker(w, TokHash) \/ BareMarker(w, TokDash)
                => Failed(c) /\ result[c].err.variant = "Generic"

(* C12 amended: of the two bare trailer markers only - fails, with the      *)
(* Generic error of the missing end-date token; a bare # is accepted as an  *)
(* open interval, active, with no tags.                                     *)
C12_BareDashFails ==
    \A c \in Calls :
        Returned(c) =>
            LET w == Words(line[c]) IN
            /\ BareMarker(w, TokDash)
                 => /\ Failed(c)
                    /\ result[c].err = Generic("nope", None)
            /\ BareMarker(w, TokHash)
                 => /\ Succeeded(c)
                    /\ result[c].rec.active
                    /\ result[c].rec.tags = <<>>

(* the line of the test only_broken_lines_5, ragged or not, has failed *)
C12_Witness ==
    \E c \in Calls :
        /\ Failed(c)
        /\ Words(line[c]) = <<TokInc, TokStart, TokDash>>
        /\ result[c].err.variant = "Generic"

(* a bare # after the start date has been accepted *)
C12_BareHashAccepted ==
    \E c \in Calls :
        /\ Succeeded(c)
        /\ BareMarker(Words(line[c]), TokHash)

(* the number of characters of the section that precede its i-th token *)
TokenOffset(toks, i) ==
    IF i = 1 THEN 0 ELSE Len(Join(SubSeq(toks, 1, i - 1), <<" ">>)) + 1

(* the i-th token of the section is an empty quoted group: it is "" and it  *)
(* does not stand inside a quote opened by an earlier token                 *)
EmptyGroupAt(toks, i) ==
    /\ toks[i] = TokEmptyQuotes
    /\ QuotesBefore(Join(toks, <<" ">>), TokenOffset(toks, i) + 1) % 2 = 0

(* the source position of the i-th token among the tags: one more than the  *)
(* number of separating spaces before it                                    *)
TagPosition(toks, i) ==
    1 + Cardinality({ j \in OutsideSpaces(Join(toks, <<" ">>)) :
                        j <= TokenOffset(toks, i) })

(* C13: empty tags are preserved as encountered, not filtered: every empty  *)
(* quoted group "" of the tag section yields one empty-string entry in tags *)
(* at its source position, whether it stands first, in the middle or last.  *)
C13_EmptyTagsKept ==
    \A c \in Calls :
        Succeeded(c) =>
            LET toks == SectionTokens(Words(line[c]))
                t    == result[c].rec.tags
            IN  \A i \in 1..Len(toks) :
                    EmptyGroupAt(toks, i) =>
                        /\ TagPosition(toks, i) <= Len(t)
                        /\ t[TagPosition(toks, i)] = <<>>

(* what holds of the code instead: an empty group followed by another token *)
(* yields its empty entry; one that ends the section yields none            *)
C13_TrailingEmptyDropped ==
    \A c \in Calls :
        Succeeded(c) =>
            LET toks == SectionTokens(Words(line[c]))
                t    == result[c].rec.tags
            IN  \A i \in 1..Len(toks) :
                    EmptyGroupAt(toks, i) =>
                        IF i < Len(toks)
                        THEN /\ TagPosition(toks, i) <= Len(t)
                             /\ t[TagPosition(toks, i)] = <<>>
                        ELSE Len(t) = TagPosition(toks, i) - 1

(* the positions of the quote characters of a line *)
QuotePositions(l) == { i \in 1..Len(l) : IsQuote(l[i]) }

FirstQuote(l) == CHOOSE i \in QuotePositions(l) : \A j \in QuotePositions(l) : i <= j

LastQuote(l) == CHOOSE i \in QuotePositions(l) : \A j \in QuotePositions(l) : j <= i

(* the line holds one quoted group, of several words, standing as a tag of  *)
(* its own: two quote characters, the first at the start of a word, the     *)
(* second at the end of a word, with whitespace somewhere between them      *)
OneQuotedGroup(l) ==
    /\ Cardinality(QuotePositions(l)) = 2
    /\ FirstQuote(l) > 1 /\ IsWhitespace(l[FirstQuote(l) - 1])
    /\ LastQuote(l) = Len(l) \/ IsWhitespace(l[LastQuote(l) + 1])
    /\ \E i \in (FirstQuote(l) + 1)..(LastQuote(l) - 1) : IsWhitespace(l[i])

(* the characters between the two quotes of such a line *)
BetweenQuotes(l) == SubSeq(l, FirstQuote(l) + 1, LastQuote(l) - 1)

(* C14: a quoted multi-word tag keeps the internal spacing it has on the    *)
(* source line: the tag equals the characters between its quotes in the     *)
(* input line, a run of several spaces or other whitespace included.        *)
C14_InternalSpacingKept ==
    \A c \in Calls :
        Succeeded(c) /\ OneQuotedGroup(line[c]) =>
            \E k \in 1..Len(result[c].rec.tags) :
                result[c].rec.tags[k] = BetweenQuotes(line[c])

(* what holds of the code instead: the tag is the words between the quotes  *)
(* joined by one space each, whatever whitespace separated them on the line *)
C14_SpacingCollapsed ==
    \A c \in Calls :
        Succeeded(c) /\ OneQuotedGroup(line[c]) =>
            \E k \in 1..Len(result[c].rec.tags) :
                result[c].rec.tags[k]
                    = Join(Words(BetweenQuotes(line[c])), <<" ">>)

(* the words up to and including the trailer are accepted: a valid start    *)
(* date followed by #, or by - with a valid end date and then #             *)
TrailerAccepted(w) ==
    /\ Len(w) >= 3 /\ ValidDate(w[2])
    /\ \/ w[3] = TokHash
       \/ Len(w) >= 5 /\ w[3] = TokDash /\ ValidDate(w[4]) /\ w[5] = TokHash

(* what follows the last quote character of a section that has one *)
AfterLastQuote(sec) ==
    LET q == CHOOSE i \in 1..Len(sec) :
                 IsQuote(sec[i]) /\ \A j \in (i + 1)..Len(sec) : ~IsQuote(sec[j])
    IN  SubSeq(sec, q + 1, Len(sec))

IsSuffix(sq, str) ==
    Len(sq) <= Len(str) /\ SubSeq(str, Len(str) - Len(sq) + 1, Len(str)) = sq

OddQuotes(sec) == QuotesBefore(sec, Len(sec) + 1) % 2 = 1

(* C15: the tag lexer never rejects: once the trailer has been accepted no  *)
(* content of the tag section makes from_str fail; a section with an odd    *)
(* number of quote characters parses, and everything after its last,        *)
(* unmatched quote, spaces included, ends up in one final tag.              *)
C15_LexerNeverRejects ==
    \A c \in Calls :
        LET w == Words(line[c]) IN
        Returned(c) /\ TrailerAccepted(w) =>
            /\ Succeeded(c)
            /\ OddQuotes(Section(w)) /\ AfterLastQuote(Section(w)) # <<>>
                 => LET t == result[c].rec.tags IN
                    /\ t # <<>>
                    /\ IsSuffix(AfterLastQuote(Section(w)), t[Len(t)])

(* the section "A inc, whose quote is never closed, has given the one tag   *)
(* A inc                                                                    *)
C15_Witness ==
    \E c \in Calls :
        /\ Succeeded(c)
        /\ SectionTokens(Words(line[c])) = <<TokOpenA, TokInc>>
        /\ result[c].rec.tags = << <<"A", " ", "i", "n", "c">> >>

(* the third word selects an open interval: it is # or there is none *)
OpenForm(w) == Len(w) = 2 \/ (Len(w) >= 3 /\ w[3] = TokHash)

(* C16: the clock is read exactly once in a parse that returns an open      *)
(* interval (third token # or absent) and the record's end is the value     *)
(* read; it is never read in a parse that returns a closed interval or an   *)
(* error, so the end of a closed record is the date of its end token.       *)
C16_ClockReadOnceWhenOpen ==
    \A c \in Calls :
        /\ Len(clockReads[c]) <= 1
        /\ Returned(c) =>
              LET w == Words(line[c]) IN
              IF Succeeded(c) /\ OpenForm(w)
              THEN /\ Len(clockReads[c]) = 1
                   /\ result[c].rec.until = clockReads[c][1]
              ELSE /\ clockReads[c] = <<>>
                   /\ Succeeded(c) => result[c].rec.until = ParseDate(w[4]).val

(* an open record with tags whose end is the one value read, a value other  *)
(* than the first the clock can show                                        *)
C16_Witness ==
    \E c \in Calls :
        /\ Succeeded(c)
        /\ Len(Words(line[c])) >= 4 /\ Words(line[c])[3] = TokHash
        /\ clockReads[c] = <<result[c].rec.until>>
        /\ result[c].rec.until # ClockOrigin

(* a closed record and no clock read *)
C16_ClosedNoRead ==
    \E c \in Calls :
        /\ Succeeded(c)
        /\ ~result[c].rec.active
        /\ clockReads[c] = <<>>

NoSpaces(str) == SelectSeq(str, LAMBDA ch : ch # " ")

(* C17: the tag lexer loses and invents no content: the concatenation of    *)
(* the output tags with their spaces removed equals the concatenation of    *)
(* the residual tokens with every quote character removed, in the same      *)
(* character order; and there are at most as many tags as residual tokens.  *)
C17_ContentConserved ==
    \A c \in Calls :
        Succeeded(c) =>
            LET toks == SectionTokens(Words(line[c]))
                t    == result[c].rec.tags
            IN  /\ NoSpaces(Join(t, <<>>)) = Unquoted(Join(toks, <<>>))
                /\ Len(t) <= Len(toks)

(* three residual tokens, two of them one quoted group, have given two tags *)
C17_Witness ==
    \E c \in Calls :
        /\ Succeeded(c)
        /\ SectionTokens(Words(line[c])) = <<TokOpenA, TokCloseB, TokInc>>
        /\ result[c].rec.tags = << <<"A", " ", "B">>, TokInc >>

(* the tag lexer of lines 116-139 run on a string from its initial state *)
Relex(str) ==
    LexFrom([multitag |-> FALSE, tag_string |-> <<>>, tags |-> <<>>], str, 1)

(* C18: full_tag() is the tags joined by single spaces and it round-trips   *)
(* for unquoted input: for every line whose tag section holds no quote      *)
(* character, full_tag() equals the section as rejoined from its tokens,    *)
(* and the tag lexer run on full_tag() gives back the same tags.            *)
C18_FullTagRoundTrip ==
    \A c \in Calls :
        Succeeded(c) =>
            LET w   == Words(line[c])
                rec == result[c].rec
            IN  /\ ~HasQuote(Section(w)) =>
                      /\ full_tag(rec) = Section(w)
                      /\ Relex(full_tag(rec)) = rec.tags
                /\ rec.tags = <<TokInc, TokInc>>
                      => full_tag(rec) = <<"i", "n", "c", " ", "i", "n", "c">>

(* an unquoted section of two words: full_tag() is the two words with one   *)
(* space between them, and lexing it gives the two tags again               *)
C18_Witness ==
    \E c \in Calls :
        /\ Succeeded(c)
        /\ SectionTokens(Words(line[c])) = <<TokInc, TokInc>>
        /\ full_tag(result[c].rec) = <<"i", "n", "c", " ", "i", "n", "c">>
        /\ Relex(full_tag(result[c].rec)) = <<TokInc, TokInc>>

====
